---- MODULE Spec2Model ----
(***************************************************************************)
(* Regex synthesis core of grex (src/src/ast.rs): the Expression tree, its *)
(* normalising combinators (concatenate, union, repetition), the affix     *)
(* helpers (value, remove_substring, find_common_substring) and the        *)
(* state-elimination driver Expression::from.                              *)
(*                                                                         *)
(* An Expression is a tuple whose first component is the variant name:     *)
(*   <<"Literal", cluster>>          cluster: sequence of graphemes        *)
(*   <<"CharacterClass", set>>       set of chars                          *)
(*   <<"Concatenation", e1, e2>>                                           *)
(*   <<"Alternation", options>>      options: sequence of expressions      *)
(*   <<"Repetition", e, quantifier>>                                       *)
(* Option::None is <<"None">>; an aborted call (panic) is <<"Panic">>.     *)
(***************************************************************************)
EXTENDS Integers, Sequences, FiniteSets, TLC

\* ---------------------------------------------------------------- bounds
MaxStates == 3      \* number of DFA states N is in 1..MaxStates
MaxEdges == 3       \* number of DFA edges
MaxLen == 4         \* languages are compared on strings of at most MaxLen chars
MaxBudget == 4      \* leaves and repetitions spent on the two operands of a direct call
MaxLiteral == 3     \* graphemes of a Literal operand of a direct call on two Literals

\* ------------------------------------------------------------- graphemes
\* A grapheme: its chars and its repetition bounds (crate::grapheme).
Grapheme(chars, min, max) == [chars |-> chars, min |-> min, max |-> max]

gA == Grapheme(<<"a">>, 1, 1)
gB == Grapheme(<<"b">>, 1, 1)
gCD == Grapheme(<<"c", "d">>, 1, 1)     \* one grapheme of two codepoints
gA2 == Grapheme(<<"a">>, 2, 2)          \* a repeated grapheme, a{2}
gC == Grapheme(<<"c">>, 1, 1)
gD == Grapheme(<<"d">>, 1, 1)
gX == Grapheme(<<"x">>, 1, 1)

maximum(g) == g.max

RECURSIVE char_count(_)
char_count(cluster) ==
    IF cluster = <<>> THEN 0
    ELSE Len(Head(cluster).chars) + char_count(Tail(cluster))

size(cluster) == Len(cluster)

merge(first, second) == first \o second

\* ----------------------------------------------------------- expressions
None == <<"None">>
Panic == <<"Panic">>
Some(v) == <<"Some", v>>

KleeneStar == "KleeneStar"
QuestionMark == "QuestionMark"

Prefix == "Prefix"
Suffix == "Suffix"

new_literal(cluster) == <<"Literal", cluster>>
new_concatenation(expr1, expr2) == <<"Concatenation", expr1, expr2>>
new_repetition(expr, quantifier) == <<"Repetition", expr, quantifier>>

Epsilon == new_literal(<<>>)

IsLiteral(e) == e[1] = "Literal"
IsCharacterClass(e) == e[1] = "CharacterClass"
IsConcatenation(e) == e[1] = "Concatenation"
IsAlternation(e) == e[1] = "Alternation"
IsRepetition(e) == e[1] = "Repetition"
IsSome(e) == e[1] \notin {"None", "Panic"}

\* new_character_class keeping the first set alone.
new_character_class_FirstOnly(first_char_set, second_char_set) ==
    <<"CharacterClass", first_char_set>>

new_character_class(first_char_set, second_char_set) ==
    <<"CharacterClass", first_char_set \cup second_char_set>>

is_empty(e) == IsLiteral(e) /\ e[2] = <<>>

\* is_single_codepoint counting graphemes instead of chars.
is_single_codepoint_AnyGrapheme(e) ==
    \/ IsCharacterClass(e)
    \/ IsLiteral(e) /\ Len(e[2]) = 1

is_single_codepoint(e) ==
    \/ IsCharacterClass(e)
    \/ IsLiteral(e) /\ char_count(e[2]) = 1 /\ maximum(Head(e[2])) = 1

RECURSIVE len(_)
len(e) ==
    CASE IsAlternation(e) -> len(Head(e[2]))
      [] IsCharacterClass(e) -> 1
      [] IsConcatenation(e) -> len(e[2]) + len(e[3])
      [] IsLiteral(e) -> size(e[2])
      [] IsRepetition(e) -> len(e[2])

RECURSIVE flatten_alternations(_)
flatten_alternations(current_options) ==
    IF current_options = <<>> THEN <<>>
    ELSE LET option == Head(current_options)
         IN  (IF IsAlternation(option)
                 THEN flatten_alternations(option[2])
                 ELSE <<option>>)
             \o flatten_alternations(Tail(current_options))

\* Insert x behind every element that is at least as long: a stable
\* descending sort.
RECURSIVE InsertByLen(_, _)
InsertByLen(sorted, x) ==
    IF sorted = <<>> THEN <<x>>
    ELSE IF len(Head(sorted)) >= len(x)
         THEN <<Head(sorted)>> \o InsertByLen(Tail(sorted), x)
         ELSE <<x>> \o sorted

RECURSIVE sort_by_len(_)
sort_by_len(options) ==
    IF options = <<>> THEN <<>>
    ELSE InsertByLen(sort_by_len(SubSeq(options, 1, Len(options) - 1)),
                     options[Len(options)])

\* new_alternation without the sort.
new_alternation_Unsorted(expr1, expr2) ==
    <<"Alternation", flatten_alternations(<<expr1, expr2>>)>>

\* new_alternation without the flattening.
new_alternation_Nested(expr1, expr2) ==
    <<"Alternation", sort_by_len(<<expr1, expr2>>)>>

new_alternation(expr1, expr2) ==
    <<"Alternation", sort_by_len(flatten_alternations(<<expr1, expr2>>))>>

\* ------------------------------------------------------ affix helpers
RECURSIVE remove_substring(_, _, _)

\* remove_substring with the Suffix drain taken from the front.
remove_substring_DrainsFront(e, substring, length) ==
    CASE IsConcatenation(e) ->
            IF substring = Prefix
            THEN IF IsLiteral(e[2])
                 THEN <<"Concatenation", remove_substring(e[2], substring, length), e[3]>>
                 ELSE e
            ELSE IF IsLiteral(e[3])
                 THEN <<"Concatenation", e[2], remove_substring(e[3], substring, length)>>
                 ELSE e
      [] IsLiteral(e) ->
            IF length > Len(e[2]) THEN Panic
            ELSE <<"Literal", SubSeq(e[2], length + 1, Len(e[2]))>>
      [] OTHER -> e

\* remove_substring reaching for the Literal child of the other side when
\* the child of the named side is no Literal.
remove_substring_OtherChild(e, substring, length) ==
    CASE IsConcatenation(e) ->
            LET near == IF substring = Prefix THEN e[2] ELSE e[3]
                far  == IF substring = Prefix THEN e[3] ELSE e[2]
                Drained(l) == IF length > Len(l[2]) THEN l
                              ELSE IF substring = Prefix
                                   THEN <<"Literal", SubSeq(l[2], length + 1, Len(l[2]))>>
                                   ELSE <<"Literal", SubSeq(l[2], 1, Len(l[2]) - length)>>
            IN  IF IsLiteral(near)
                THEN IF length > Len(near[2]) THEN Panic
                     ELSE IF substring = Prefix
                          THEN <<"Concatenation", Drained(near), far>>
                          ELSE <<"Concatenation", far, Drained(near)>>
                ELSE IF IsLiteral(far)
                     THEN IF substring = Prefix
                          THEN <<"Concatenation", near, Drained(far)>>
                          ELSE <<"Concatenation", Drained(far), near>>
                     ELSE e
      [] IsLiteral(e) ->
            IF length > Len(e[2]) THEN Panic
            ELSE IF substring = Prefix
                 THEN <<"Literal", SubSeq(e[2], length + 1, Len(e[2]))>>
                 ELSE <<"Literal", SubSeq(e[2], 1, Len(e[2]) - length)>>
      [] OTHER -> e

remove_substring(e, substring, length) ==
    CASE IsConcatenation(e) ->
            IF substring = Prefix
            THEN IF IsLiteral(e[2])
                 THEN LET expr1 == remove_substring(e[2], substring, length)
                      IN  IF expr1 = Panic THEN Panic
                          ELSE <<"Concatenation", expr1, e[3]>>
                 ELSE e
            ELSE IF IsLiteral(e[3])
                 THEN LET expr2 == remove_substring(e[3], substring, length)
                      IN  IF expr2 = Panic THEN Panic
                          ELSE <<"Concatenation", e[2], expr2>>
                 ELSE e
      [] IsLiteral(e) ->
            IF length > Len(e[2]) THEN Panic      \* drain out of range
            ELSE IF substring = Prefix
                 THEN <<"Literal", SubSeq(e[2], length + 1, Len(e[2]))>>
                 ELSE <<"Literal", SubSeq(e[2], 1, Len(e[2]) - length)>>
      [] OTHER -> e

RECURSIVE value(_, _)
value(e, substring) ==
    CASE IsConcatenation(e) ->
            IF substring = None THEN None
            ELSE IF substring = Some(Prefix) THEN value(e[2], None)
            ELSE value(e[3], None)
      [] IsLiteral(e) -> Some(e[2])
      [] OTHER -> None

RECURSIVE Reverse(_)
Reverse(s) == IF s = <<>> THEN <<>> ELSE Reverse(Tail(s)) \o <<Head(s)>>

\* The run of equal leading pairs of two sequences (zip_longest, break on
\* the first pair that differs or is one-sided).
RECURSIVE CommonRun(_, _)

\* CommonRun going on over the pairs that have one side only.
CommonRun_OneSided(s, t) ==
    IF s = <<>> /\ t = <<>> THEN <<>>
    ELSE IF s = <<>> THEN <<Head(t)>> \o CommonRun(s, Tail(t))
    ELSE IF t = <<>> THEN <<Head(s)>> \o CommonRun(Tail(s), t)
    ELSE IF Head(s) = Head(t)
         THEN <<Head(s)>> \o CommonRun(Tail(s), Tail(t))
         ELSE <<>>

CommonRun(s, t) ==
    IF s = <<>> \/ t = <<>> THEN <<>>
    ELSE IF Head(s) = Head(t)
         THEN <<Head(s)>> \o CommonRun(Tail(s), Tail(t))
         ELSE <<>>

UnwrapOrEmpty(v) == IF v = None THEN <<>> ELSE v[2]

find_common_substring(a, b, substring) ==
    LET graphemes_a == UnwrapOrEmpty(value(a, Some(substring)))
        graphemes_b == UnwrapOrEmpty(value(b, Some(substring)))
        common_graphemes ==
            IF substring = Suffix
            THEN Reverse(CommonRun(Reverse(graphemes_a), Reverse(graphemes_b)))
            ELSE CommonRun(graphemes_a, graphemes_b)
    IN  IF common_graphemes = <<>> THEN None ELSE Some(common_graphemes)

\* Returns the two operands after the removal and the common substring.
remove_common_substring(a, b, substring) ==
    LET common_substring == find_common_substring(a, b, substring)
    IN  IF common_substring # None
        THEN [a |-> remove_substring(a, substring, Len(common_substring[2])),
              b |-> remove_substring(b, substring, Len(common_substring[2])),
              common |-> common_substring]
        ELSE [a |-> a, b |-> b, common |-> None]

\* ---------------------------------------------------------- combinators
repeat_zero_or_more_times(expr) ==
    IF IsSome(expr) THEN new_repetition(expr, KleeneStar) ELSE None

\* concatenate without the merging of adjacent literals (rules 3 to 5).
concatenate_NoMerge(a, b) ==
    IF a = Panic \/ b = Panic THEN Panic
    ELSE IF a = None \/ b = None THEN None
    ELSE IF is_empty(a) THEN b
    ELSE IF is_empty(b) THEN a
    ELSE new_concatenation(a, b)

concatenate(a, b) ==
    IF a = Panic \/ b = Panic THEN Panic
    ELSE IF a = None \/ b = None THEN None
    ELSE IF is_empty(a) THEN b
    ELSE IF is_empty(b) THEN a
    ELSE IF IsLiteral(a) /\ IsLiteral(b)
         THEN new_literal(merge(a[2], b[2]))
    ELSE IF IsLiteral(a) /\ IsConcatenation(b) /\ IsLiteral(b[2])
         THEN new_concatenation(new_literal(merge(a[2], b[2][2])), b[3])
    ELSE IF IsLiteral(b) /\ IsConcatenation(a) /\ IsLiteral(a[3])
         THEN new_concatenation(a[2], new_literal(merge(a[3][2], b[2])))
    ELSE new_concatenation(a, b)

extract_character_set(expr) ==
    CASE IsLiteral(expr) -> {Head(Head(expr[2]).chars)}
      [] IsCharacterClass(expr) -> expr[2]
      [] OTHER -> {}

IsOptional(e) == IsRepetition(e) /\ e[3] = QuestionMark

\* The operands of union after the removal of the common prefix and then of
\* the common suffix, with the two substrings removed.
Factored(a, b) ==
    LET p == remove_common_substring(a, b, Prefix)
        s == IF p.a = Panic \/ p.b = Panic
             THEN [a |-> Panic, b |-> Panic, common |-> None]
             ELSE remove_common_substring(p.a, p.b, Suffix)
    IN  [expr1 |-> s.a, expr2 |-> s.b,
         common_prefix |-> p.common, common_suffix |-> s.common]

\* union_core with the two optional-operand stages ahead of the epsilon
\* absorption.
union_core_OptionalFirst(expr1, expr2) ==
    IF IsOptional(expr1)
    THEN new_repetition(new_alternation(expr1[2], expr2), QuestionMark)
    ELSE IF IsOptional(expr2)
         THEN new_repetition(new_alternation(expr1, expr2[2]), QuestionMark)
    ELSE IF is_empty(expr1) THEN new_repetition(expr2, QuestionMark)
    ELSE IF is_empty(expr2) THEN new_repetition(expr1, QuestionMark)
    ELSE IF is_single_codepoint(expr1) /\ is_single_codepoint(expr2)
         THEN new_character_class(extract_character_set(expr1),
                                  extract_character_set(expr2))
    ELSE new_alternation(expr1, expr2)

\* The part of union between the affix removal and the affix re-wrap.
union_core(expr1, expr2) ==
    IF is_empty(expr1) THEN new_repetition(expr2, QuestionMark)
    ELSE IF is_empty(expr2) THEN new_repetition(expr1, QuestionMark)
    ELSE IF IsOptional(expr1)
         THEN new_repetition(new_alternation(expr1[2], expr2), QuestionMark)
    ELSE IF IsOptional(expr2)
         THEN new_repetition(new_alternation(expr1, expr2[2]), QuestionMark)
    ELSE IF is_single_codepoint(expr1) /\ is_single_codepoint(expr2)
         THEN new_character_class(extract_character_set(expr1),
                                  extract_character_set(expr2))
    ELSE new_alternation(expr1, expr2)

union(a, b) ==
    IF a = Panic \/ b = Panic THEN Panic
    ELSE IF IsSome(a) /\ IsSome(b)
    THEN IF a # b
         THEN LET p == remove_common_substring(a, b, Prefix)
              IN  IF p.a = Panic \/ p.b = Panic THEN Panic
                  ELSE
              LET s == remove_common_substring(p.a, p.b, Suffix)
              IN  IF s.a = Panic \/ s.b = Panic THEN Panic
                  ELSE
              LET result == union_core(s.a, s.b)
                  with_prefix ==
                      IF p.common # None
                      THEN new_concatenation(new_literal(p.common[2]), result)
                      ELSE result
              IN  IF s.common # None
                  THEN new_concatenation(with_prefix, new_literal(s.common[2]))
                  ELSE with_prefix
         ELSE a
    ELSE IF IsSome(a) THEN a
    ELSE IF IsSome(b) THEN b
    ELSE None

\* ------------------------------------------------- matched languages
\* Languages are sets of strings (sequences of chars), cut at MaxLen chars.
CatL(L1, L2) ==
    {w \in {s \o t : s \in L1, t \in L2} : Len(w) <= MaxLen}

RECURSIVE Power(_, _)
Power(chars, k) == IF k = 0 THEN <<>> ELSE chars \o Power(chars, k - 1)

\* A grapheme matches its chars repeated min..max times.
GraphemeLang(g) ==
    {w \in {Power(g.chars, k) : k \in g.min .. g.max} : Len(w) <= MaxLen}

RECURSIVE ClusterLang(_)
ClusterLang(cluster) ==
    IF cluster = <<>> THEN {<<>>}
    ELSE CatL(GraphemeLang(Head(cluster)), ClusterLang(Tail(cluster)))

RECURSIVE StarL(_, _)
StarL(acc, L) ==
    LET next == acc \cup CatL(acc, L)
    IN  IF next = acc THEN acc ELSE StarL(next, L)

RECURSIVE Lang(_)
RECURSIVE LangOfOptions(_)
Lang(e) ==
    CASE IsLiteral(e) -> ClusterLang(e[2])
      [] IsCharacterClass(e) -> {<<c>> : c \in e[2]}
      [] IsConcatenation(e) -> CatL(Lang(e[2]), Lang(e[3]))
      [] IsAlternation(e) -> LangOfOptions(e[2])
      [] IsRepetition(e) ->
            IF e[3] = KleeneStar THEN StarL({<<>>}, Lang(e[2]))
            ELSE Lang(e[2]) \cup {<<>>}
      [] OTHER -> {}                      \* an absent slot: the empty language

LangOfOptions(options) ==
    IF options = <<>> THEN {}
    ELSE Lang(Head(options)) \cup LangOfOptions(Tail(options))

\* ------------------------------------------------------ tree predicates
\* The immediate children of a node, as a sequence.
Children(e) ==
    CASE IsConcatenation(e) -> <<e[2], e[3]>>
      [] IsAlternation(e) -> e[2]
      [] IsRepetition(e) -> <<e[2]>>
      [] OTHER -> <<>>

\* P holds at every node of the tree e.
RECURSIVE EveryNode(_, _)
EveryNode(P(_), e) ==
    /\ P(e)
    /\ \A k \in 1 .. Len(Children(e)) : EveryNode(P, Children(e)[k])

\* P holds at some node of the tree e.
RECURSIVE SomeNode(_, _)
SomeNode(P(_), e) ==
    \/ P(e)
    \/ \E k \in 1 .. Len(Children(e)) : SomeNode(P, Children(e)[k])

FlatAt(e) ==
    IsAlternation(e) => \A k \in 1 .. Len(e[2]) : ~IsAlternation(e[2][k])

OrderedAt(e) ==
    IsAlternation(e) =>
        \A k \in 1 .. Len(e[2]) - 1 : len(e[2][k]) >= len(e[2][k + 1])

ClassAt(e) == IsCharacterClass(e) => Cardinality(e[2]) >= 2

NoEpsilonAt(e) ==
    IsConcatenation(e) => ~is_empty(e[2]) /\ ~is_empty(e[3])

SpineAt(e) ==
    IsConcatenation(e) =>
        /\ ~(IsLiteral(e[2]) /\ IsLiteral(e[3]))
        /\ ~(IsLiteral(e[2]) /\ IsConcatenation(e[3]) /\ IsLiteral(e[3][2]))
        /\ ~(IsLiteral(e[3]) /\ IsConcatenation(e[2]) /\ IsLiteral(e[2][3]))

\* The first and the last tree along the spine of nested concatenations.
RECURSIVE FirstFragment(_)
FirstFragment(e) == IF IsConcatenation(e) THEN FirstFragment(e[2]) ELSE e

RECURSIVE LastFragment(_)
LastFragment(e) == IF IsConcatenation(e) THEN LastFragment(e[3]) ELSE e

\* No two literal fragments meet at the Concatenation node e.
MergedAt(e) ==
    IsConcatenation(e) =>
        ~(IsLiteral(LastFragment(e[2])) /\ IsLiteral(FirstFragment(e[3])))

\* ------------------------------------------------------------ the DFA
\* A DFA is [n, edge, final]: n states named 0 .. n-1 by their position in
\* states_in_depth_first_order(), edge a function from (state, grapheme)
\* pairs to target states, final the set of accepting states.
Alphabet == {gA, gB, gCD}

state_count(d) == d.n

is_final_state(d, state) == state \in d.final

\* The edges leaving a state, each with its weight() and target().
outgoing_edges(d, state) ==
    {[weight |-> sg[2], target |-> d.edge[sg]] :
        sg \in {x \in DOMAIN d.edge : x[1] = state}}

\* 0, 1, .., n-1 is an order in which a depth-first search from state 0
\* discovers the states: the search is at the top of path, k is the next
\* state to be discovered.
RECURSIVE DepthFirstFrom(_, _, _)
DepthFirstFrom(d, path, k) ==
    IF k >= d.n THEN TRUE
    ELSE IF path = <<>> THEN FALSE
    ELSE LET top == path[Len(path)]
             fresh == {e.target : e \in outgoing_edges(d, top)} \cap (k .. d.n - 1)
         IN  IF k \in fresh THEN DepthFirstFrom(d, Append(path, k), k + 1)
             ELSE IF fresh = {}
                  THEN DepthFirstFrom(d, SubSeq(path, 1, Len(path) - 1), k)
                  ELSE FALSE

states_in_depth_first_order(d) == DepthFirstFrom(d, <<0>>, 1)

\* The strings of at most k chars the DFA accepts from a state.
RECURSIVE Accepted(_, _, _)
Accepted(d, state, k) ==
    (IF is_final_state(d, state) THEN {<<>>} ELSE {})
    \cup UNION {
        UNION {{w \o rest : rest \in Accepted(d, e.target, k - Len(w))} :
                 w \in {x \in GraphemeLang(e.weight) : Len(x) <= k}} :
        e \in outgoing_edges(d, state)}

\* ---------------------------------------------------- Expression::from
VARIABLES
    dfa,        \* the DFA given to Expression::from
    a,          \* the matrix a[(i, j)] of optional expressions
    b,          \* the vector b[i] of optional expressions
    i,          \* the state the seeding loop is at
    n,          \* the state the elimination loop is at
    pc,         \* "seed", "elim", "finish", "done"; "comb" in SpecComb
    result,     \* what Expression::from returns
    op,         \* SpecComb: the combinator applied last
    x,          \* SpecComb: its first operand
    y,          \* SpecComb: its second operand
    r           \* SpecComb: its result

vars == <<dfa, a, b, i, n, pc, result, op, x, y, r>>

combVars == <<op, x, y, r>>
fromVars == <<dfa, a, b, i, n, result>>

StateIds == 0 .. state_count(dfa) - 1

\* The orders in which a set can be enumerated.
Orderings(S) ==
    {f \in [1 .. Cardinality(S) -> S] :
        \A p, q \in 1 .. Cardinality(S) : p # q => f[p] # f[q]}

\* The DFA with n states, the edges <<source, grapheme, target>> and the
\* accepting states final.
MakeDfa(N, edges, final) ==
    [n |-> N,
     edge |-> [sg \in {<<e[1], e[2]>> : e \in edges} |->
                  (CHOOSE e \in edges : <<e[1], e[2]>> = sg)[3]],
     final |-> final]

\* The minimal DFAs of the languages {abc}, {abc, abd}, {abc, xbc},
\* {a, ab, abc}, {a, b, c}, {a, ba, ca}, {ab, c, cx} and
\* {acb, acbc, xab, xabc, dab, dabc}.
Scenarios ==
    {MakeDfa(4, {<<0, gA, 1>>, <<1, gB, 2>>, <<2, gC, 3>>}, {3}),
     MakeDfa(4, {<<0, gA, 1>>, <<1, gB, 2>>, <<2, gC, 3>>, <<2, gD, 3>>}, {3}),
     MakeDfa(4, {<<0, gA, 1>>, <<0, gX, 1>>, <<1, gB, 2>>, <<2, gC, 3>>}, {3}),
     MakeDfa(4, {<<0, gA, 1>>, <<1, gB, 2>>, <<2, gC, 3>>}, {1, 2, 3}),
     MakeDfa(2, {<<0, gA, 1>>, <<0, gB, 1>>, <<0, gC, 1>>}, {1}),
     MakeDfa(3, {<<0, gB, 1>>, <<0, gC, 1>>, <<1, gA, 2>>, <<0, gA, 2>>}, {2}),
     MakeDfa(4, {<<0, gA, 1>>, <<1, gB, 2>>, <<0, gC, 3>>, <<3, gX, 2>>}, {2, 3}),
     MakeDfa(6, {<<0, gA, 1>>, <<1, gC, 2>>, <<2, gB, 3>>, <<3, gC, 4>>,
                 <<0, gX, 5>>, <<0, gD, 5>>, <<5, gA, 2>>}, {3, 4})}

\* Every DFA of at most MaxStates states and MaxEdges edges over Alphabet
\* whose states are in depth-first order, and the scenarios.
InitFrom ==
    /\ \/ \E N \in 0 .. MaxStates :
          \E E \in {S \in SUBSET ((0 .. N - 1) \X Alphabet) : Cardinality(S) <= MaxEdges} :
          \E f \in [E -> 0 .. N - 1] :
          \E F \in SUBSET (0 .. N - 1) :
             dfa = [n |-> N, edge |-> f, final |-> F]
       \/ dfa \in Scenarios
    /\ states_in_depth_first_order(dfa)
    /\ a = [s \in StateIds \X StateIds |-> None]
    /\ b = [s \in StateIds |-> None]
    /\ i = 0
    /\ n = state_count(dfa) - 1
    /\ pc = IF state_count(dfa) = 0 THEN "finish" ELSE "seed"
    /\ result = None
    /\ op = <<"none">> /\ x = None /\ y = None /\ r = None

\* Row i of a after the edges of state i, taken in the order edges.
RECURSIVE SeedRow(_, _)
SeedRow(row, edges) ==
    IF edges = <<>> THEN row
    ELSE LET edge == Head(edges)
             literal == new_literal(<<edge.weight>>)
             j == edge.target
         IN  SeedRow([row EXCEPT ![j] = IF IsSome(row[j])
                                        THEN union(row[j], literal)
                                        ELSE literal],
                     Tail(edges))

\* One iteration of the loop over the states (lines 56-76).
SeedState ==
    /\ pc = "seed"
    /\ \E edges \in Orderings(outgoing_edges(dfa, i)) :
          LET row == SeedRow([j \in StateIds |-> a[<<i, j>>]], edges)
          IN  a' = [s \in StateIds \X StateIds |->
                        IF s[1] = i THEN row[s[2]] ELSE a[s]]
    /\ b' = [b EXCEPT ![i] = IF is_final_state(dfa, i) THEN Epsilon ELSE b[i]]
    /\ i' = i + 1
    /\ pc' = IF i + 1 = state_count(dfa) THEN "elim" ELSE "seed"
    /\ UNCHANGED <<dfa, n, result, combVars>>

\* a and b after the self-loop absorption at state n (lines 79-92).
SelfLoopB(m) ==
    IF IsSome(a[<<m, m>>])
    THEN [b EXCEPT ![m] = concatenate(repeat_zero_or_more_times(a[<<m, m>>]), b[m])]
    ELSE b

SelfLoopA(m) ==
    IF IsSome(a[<<m, m>>])
    THEN [s \in StateIds \X StateIds |->
            IF s[1] = m /\ s[2] < m
            THEN concatenate(repeat_zero_or_more_times(a[<<m, m>>]), a[s])
            ELSE a[s]]
    ELSE a

\* The absorption overwriting b[i] instead of uniting with it.
AbsorbB_Overwrite(m, a1, b1) ==
    [s \in DOMAIN b1 |->
        IF s < m /\ IsSome(a1[<<s, m>>])
        THEN concatenate(a1[<<s, m>>], b1[m])
        ELSE b1[s]]

\* a and b after the absorption of state n into the states before it
\* (lines 94-106), given a and b after the self-loop absorption.
AbsorbB(m, a1, b1) ==
    [s \in StateIds |->
        IF s < m /\ IsSome(a1[<<s, m>>])
        THEN union(b1[s], concatenate(a1[<<s, m>>], b1[m]))
        ELSE b1[s]]

AbsorbA(m, a1) ==
    [s \in StateIds \X StateIds |->
        IF s[1] < m /\ s[2] < m /\ IsSome(a1[<<s[1], m>>])
        THEN union(a1[s], concatenate(a1[<<s[1], m>>], a1[<<m, s[2]>>]))
        ELSE a1[s]]

\* One iteration of the elimination loop (lines 78-107).
Eliminate ==
    /\ pc = "elim"
    /\ a' = AbsorbA(n, SelfLoopA(n))
    /\ b' = AbsorbB(n, SelfLoopA(n), SelfLoopB(n))
    /\ n' = n - 1
    /\ pc' = IF n = 0 THEN "finish" ELSE "elim"
    /\ UNCHANGED <<dfa, i, result, combVars>>

\* The result without the is_some() test.
from_result_Unchecked(bb) ==
    IF DOMAIN bb # {} THEN bb[0] ELSE Epsilon

\* What Expression::from returns (lines 109-113).
from_result(bb) ==
    IF DOMAIN bb # {} /\ IsSome(bb[0]) THEN bb[0] ELSE Epsilon

Finish ==
    /\ pc = "finish"
    /\ result' = from_result(b)
    /\ pc' = "done"
    /\ UNCHANGED <<dfa, a, b, i, n, combVars>>

\* ------------------------------------------- direct combinator calls
\* The operands of a direct call are trees the combinators build themselves:
\* Built(k) holds the trees built from k leaves and repetitions.
CombAlphabet == {gA, gB, gCD, gA2}

Leaves == {Epsilon} \cup {new_literal(<<g>>) : g \in CombAlphabet}

RECURSIVE Built(_)
Built(k) ==
    IF k <= 1 THEN Leaves
    ELSE {t \in {repeat_zero_or_more_times(p) : p \in Built(k - 1)}
                \cup UNION {UNION {{concatenate(p, q), union(p, q)} :
                                      p \in Built(j), q \in Built(k - j)} :
                            j \in 1 .. k - 1} :
            IsSome(t)}

\* The graphemes remove_substring can drain on a side of e.
Available(e, substring) == Len(UnwrapOrEmpty(value(e, Some(substring))))

InitComb ==
    /\ \E j \in 1 .. MaxBudget - 1 : \E k \in 1 .. MaxBudget - j :
          /\ x \in Built(j) \cup {None}
          /\ y \in Built(k) \cup {None}
    /\ op = <<"none">>
    /\ r = None
    /\ pc = "comb"
    /\ dfa = [n |-> 0, edge |-> <<>>, final |-> {}]
    /\ a = <<>> /\ b = <<>> /\ i = 0 /\ n = 0 /\ result = None

\* Direct calls on two Literals of up to MaxLiteral graphemes, which can
\* share a prefix and a suffix at once.
LiteralOperands ==
    {new_literal(c) :
        c \in UNION {[1 .. m -> {gA, gB}] : m \in 0 .. MaxLiteral}}

InitLiterals ==
    /\ x \in LiteralOperands
    /\ y \in LiteralOperands
    /\ op = <<"none">>
    /\ r = None
    /\ pc = "comb"
    /\ dfa = [n |-> 0, edge |-> <<>>, final |-> {}]
    /\ a = <<>> /\ b = <<>> /\ i = 0 /\ n = 0 /\ result = None

Init == InitFrom \/ InitComb \/ InitLiterals

Concatenate ==
    /\ pc = "comb" /\ op = <<"none">>
    /\ r' = concatenate(x, y)
    /\ op' = <<"concatenate">>
    /\ UNCHANGED <<x, y, pc, fromVars>>

Union ==
    /\ pc = "comb" /\ op = <<"none">>
    /\ r' = union(x, y)
    /\ op' = <<"union">>
    /\ UNCHANGED <<x, y, pc, fromVars>>

RepeatZeroOrMoreTimes ==
    /\ pc = "comb" /\ op = <<"none">>
    /\ r' = repeat_zero_or_more_times(x)
    /\ op' = <<"repeat_zero_or_more_times">>
    /\ UNCHANGED <<x, y, pc, fromVars>>

NewAlternation ==
    /\ pc = "comb" /\ op = <<"none">>
    /\ IsSome(x) /\ IsSome(y)
    /\ r' = new_alternation(x, y)
    /\ op' = <<"new_alternation">>
    /\ UNCHANGED <<x, y, pc, fromVars>>

\* remove_substring within its precondition: length is at most the
\* graphemes available on that side.
RemoveSubstring ==
    /\ pc = "comb" /\ op = <<"none">>
    /\ IsSome(x)
    /\ \E substring \in {Prefix, Suffix} :
       \E length \in 0 .. (IF value(x, Some(substring)) # None
                            THEN Available(x, substring) ELSE 1) :
          /\ r' = remove_substring(x, substring, length)
          /\ op' = <<"remove_substring", substring, length>>
    /\ UNCHANGED <<x, y, pc, fromVars>>

Next ==
    \/ SeedState \/ Eliminate \/ Finish
    \/ Concatenate \/ Union \/ RepeatZeroOrMoreTimes \/ NewAlternation
    \/ RemoveSubstring

Spec == Init /\ [][Next]_vars

\* ------------------------------------------------------------- claims
\* The trees held by the driver: the present slots of a and b, and the
\* returned tree.
DriverTrees ==
    {a[s] : s \in {t \in DOMAIN a : IsSome(a[t])}}
    \cup {b[s] : s \in {t \in DOMAIN b : IsSome(b[t])}}
    \cup (IF pc = "done" THEN {result} ELSE {})

DfaLanguage == Accepted(dfa, 0, MaxLen)

\* C1 as stated: for every DFA with a start state, the returned tree
\* matches exactly the strings the DFA accepts from state 0.
C1_AsStated ==
    (pc = "done" /\ state_count(dfa) > 0) => Lang(result) = DfaLanguage

\* C1: for every DFA that accepts at least one string, the returned tree
\* matches exactly the strings the DFA accepts from state 0 (compared on
\* the strings of at most MaxLen chars).
C1_LanguageEquivalence ==
    (pc = "done" /\ state_count(dfa) > 0 /\ DfaLanguage # {})
        => Lang(result) = DfaLanguage

\* C1 witness: the DFA of {abc, abd} has been turned into ab[cd].
C1_Witness ==
    /\ pc = "done"
    /\ DfaLanguage = {<<"a", "b", "c">>, <<"a", "b", "d">>}
    /\ result = new_concatenation(new_literal(<<gA, gB>>),
                                  <<"CharacterClass", {"c", "d"}>>)

\* The result of a direct call of one of the combinators in ops.
CombResult(ops) ==
    IF pc = "comb" /\ op[1] \in ops /\ IsSome(r) THEN {r} ELSE {}

\* C2: the tree union returns for two present operands matches exactly the
\* strings that one of the operands matches.
C2_UnionPreservesLanguage ==
    (pc = "comb" /\ op[1] = "union" /\ IsSome(x) /\ IsSome(y))
        => /\ IsSome(r)
           /\ Lang(r) = Lang(x) \cup Lang(y)

\* C2 witness: union has factored the common prefix out of two literals of
\* two graphemes and merged what was left into a character class.
C2_Witness ==
    /\ pc = "comb" /\ op[1] = "union"
    /\ IsLiteral(x) /\ Len(x[2]) = 2
    /\ IsLiteral(y) /\ Len(y[2]) = 2
    /\ IsConcatenation(r)
    /\ r[2] = new_literal(<<x[2][1]>>) /\ IsCharacterClass(r[3])
    /\ Lang(r) = Lang(x) \cup Lang(y)

\* C3: no Alternation node of a tree held by the driver, or returned by a
\* direct call of new_alternation, union or concatenate, has an
\* Alternation child.
C3_AlternationFlat ==
    \A t \in DriverTrees \cup CombResult({"new_alternation", "union", "concatenate"}) :
        EveryNode(FlatAt, t)

\* C3 witness: the driver holds an alternation of three options, built by
\* new_alternation from an alternation and a third option.
C3_Witness ==
    \E t \in DriverTrees : IsAlternation(t) /\ Len(t[2]) = 3

\* C4: the options of every Alternation node of a tree held by the driver,
\* or returned by a direct call of new_alternation, union or concatenate,
\* are in order of non-increasing len().
C4_AlternationOrdered ==
    \A t \in DriverTrees \cup CombResult({"new_alternation", "union", "concatenate"}) :
        EveryNode(OrderedAt, t)

\* C4 witness: the returned tree is an alternation whose first option is
\* longer than its last.
C4_Witness ==
    /\ pc = "done"
    /\ IsAlternation(result)
    /\ len(result[2][1]) > len(result[2][Len(result[2])])

\* C5: every CharacterClass node of a tree held by the driver, or returned
\* by a direct call of union, holds at least two chars.
C5_ClassHasTwoChars ==
    \A t \in DriverTrees \cup CombResult({"union"}) : EveryNode(ClassAt, t)

\* C5 witness: union has merged a character class with a single-codepoint
\* literal whose char the class already holds.
C5_Witness ==
    /\ pc = "comb" /\ op[1] = "union"
    /\ IsCharacterClass(x) /\ IsLiteral(y) /\ IsCharacterClass(r)
    /\ extract_character_set(y) \subseteq x[2]

\* C6 as stated, for the tree Expression::from returns: no Concatenation
\* node has the empty Literal as a child.
C6_NoEpsilonInConcatenation ==
    pc = "done" => EveryNode(NoEpsilonAt, result)

\* C7 as stated, for the tree Expression::from returns: no Concatenation
\* node has two Literal children or a Literal child next to a Literal child
\* of a Concatenation child, and adjacent literal fragments are always
\* merged into one Literal.
C7_AsStated ==
    pc = "done" =>
        /\ EveryNode(SpineAt, result)
        /\ EveryNode(MergedAt, result)

\* C7: no Concatenation node of a tree held by the driver has two Literal
\* children, or a Literal child next to a Literal child of a Concatenation
\* child; the same holds of the tree a direct call of concatenate or union
\* returns for operands of which it holds.
C7_ConcatenationSpine ==
    /\ \A t \in DriverTrees : EveryNode(SpineAt, t)
    /\ \A t \in CombResult({"concatenate", "union"}) :
          (\A o \in {x, y} : IsSome(o) => EveryNode(SpineAt, o))
              => EveryNode(SpineAt, t)

\* C7 witness: the returned tree is a Literal followed by a tree that is not
\* a Literal, the Literal merged from two edges.
C7_Witness ==
    /\ pc = "done"
    /\ IsConcatenation(result)
    /\ IsLiteral(result[2]) /\ Len(result[2][2]) = 2
    /\ IsRepetition(result[3])

\* The states a path of edges leads to from the states of S.
RECURSIVE ReachableFrom(_, _)
ReachableFrom(d, S) ==
    LET next == S \cup {e.target : e \in UNION {outgoing_edges(d, s) : s \in S}}
    IN  IF next = S THEN S ELSE ReachableFrom(d, next)

AcceptingReachable ==
    state_count(dfa) > 0 /\ ReachableFrom(dfa, {0}) \cap dfa.final # {}

\* C8: Expression::from aborts nowhere and returns a tree: b[0] when the
\* DFA has a state and b[0] is present, which is when an accepting state can
\* be reached from state 0, and the empty Literal otherwise.
C8_FromReturnsTree ==
    /\ \A s \in DOMAIN a : a[s] # Panic
    /\ \A s \in DOMAIN b : b[s] # Panic
    /\ pc \in {"finish", "done"} =>
          (AcceptingReachable <=> (state_count(dfa) > 0 /\ IsSome(b[0])))
    /\ pc = "done" =>
          /\ IsSome(result)
          /\ result = IF AcceptingReachable THEN b[0] ELSE Epsilon

\* C8 witness: a DFA with states and edges but no accepting state has been
\* turned into the empty Literal.
C8_Witness ==
    /\ pc = "done"
    /\ state_count(dfa) = 3 /\ DOMAIN dfa.edge # {} /\ dfa.final = {}
    /\ result = Epsilon

\* C9: remove_substring(side, n), n at most the graphemes on that side,
\* drops the first n (Prefix) or last n (Suffix) graphemes of a Literal and
\* keeps the others in order; of a Concatenation it changes the child on
\* that side alone, and only a Literal child; any other tree is unchanged.
DropsGraphemes(before, after, substring, k) ==
    /\ IsLiteral(after)
    /\ Len(after[2]) = Len(before[2]) - k
    /\ \A idx \in 1 .. Len(after[2]) :
          after[2][idx] = before[2][IF substring = Prefix THEN idx + k ELSE idx]

C9_RemoveSubstringFrame ==
    (pc = "comb" /\ op[1] = "remove_substring") =>
        CASE IsLiteral(x) -> DropsGraphemes(x, r, op[2], op[3])
          [] IsConcatenation(x) ->
                /\ IsConcatenation(r)
                /\ IF op[2] = Prefix
                   THEN /\ r[3] = x[3]
                        /\ IF IsLiteral(x[2])
                           THEN DropsGraphemes(x[2], r[2], op[2], op[3])
                           ELSE r[2] = x[2]
                   ELSE /\ r[2] = x[2]
                        /\ IF IsLiteral(x[3])
                           THEN DropsGraphemes(x[3], r[3], op[2], op[3])
                           ELSE r[3] = x[3]
          [] OTHER -> r = x

\* C9 witness: the one grapheme of the Literal that ends a Concatenation
\* has been removed, and the other child, which is not a Literal, is the
\* same as before.
C9_Witness ==
    /\ pc = "comb" /\ op = <<"remove_substring", Suffix, 1>>
    /\ IsConcatenation(x) /\ ~IsLiteral(x[2])
    /\ IsLiteral(x[3]) /\ Len(x[3][2]) = 1
    /\ IsConcatenation(r) /\ r[2] = x[2] /\ r[3] = Epsilon

\* C10: before each iteration of the elimination loop (the states above n
\* are eliminated), the strings accepted from a remaining state s are those
\* b[s] matches and those a[(s, j)] matches followed by a string accepted
\* from a remaining state j; after the loop b[0] matches the strings
\* accepted from state 0.
C10_EliminationInvariant ==
    /\ pc = "elim" =>
          \A s \in 0 .. n :
              Accepted(dfa, s, MaxLen) =
                  Lang(b[s]) \cup
                  UNION {CatL(Lang(a[<<s, j>>]), Accepted(dfa, j, MaxLen)) :
                            j \in 0 .. n}
    /\ (pc = "finish" /\ state_count(dfa) > 0) =>
          Lang(b[0]) = DfaLanguage

\* C10 witness: between two iterations, with a state eliminated and a state
\* whose self-loop is still to be absorbed.
C10_Witness ==
    /\ pc = "elim"
    /\ n = 1 /\ state_count(dfa) = 3
    /\ IsSome(a[<<1, 1>>]) /\ IsSome(a[<<0, 1>>]) /\ IsSome(b[1])
    /\ IsRepetition(b[0])

\* C11: when exactly one operand of union is the empty Literal after the
\* common prefix and suffix are removed, the tree union returns is
\* Repetition(other operand, ?) wrapped again in the removed prefix and
\* suffix, whatever the other operand is; and the tree returned for the DFA
\* of {"", "a"} is Repetition(Literal(a), ?).
Rewrapped(f, core) ==
    LET with_prefix == IF f.common_prefix # None
                       THEN <<"Concatenation", <<"Literal", f.common_prefix[2]>>, core>>
                       ELSE core
    IN  IF f.common_suffix # None
        THEN <<"Concatenation", with_prefix, <<"Literal", f.common_suffix[2]>>>>
        ELSE with_prefix

DfaOfEmptyAndA == MakeDfa(2, {<<0, gA, 1>>}, {0, 1})

C11_EpsilonAbsorptionFirst ==
    /\ (pc = "comb" /\ op[1] = "union" /\ IsSome(x) /\ IsSome(y) /\ x # y) =>
          LET f == Factored(x, y)
          IN  (is_empty(f.expr1) # is_empty(f.expr2)) =>
                  r = Rewrapped(f, <<"Repetition",
                                     IF is_empty(f.expr1) THEN f.expr2 ELSE f.expr1,
                                     QuestionMark>>)
    /\ (pc = "done" /\ dfa = DfaOfEmptyAndA) =>
          result = <<"Repetition", <<"Literal", <<gA>>>>, QuestionMark>>

\* C11 witness: the removal of a common prefix has left the empty Literal
\* and a Literal of one codepoint, and union has returned the prefix followed
\* by the optional Literal.
C11_Witness ==
    /\ pc = "comb" /\ op[1] = "union"
    /\ IsLiteral(x) /\ IsLiteral(y) /\ ~is_empty(x) /\ ~is_empty(y)
    /\ is_empty(Factored(x, y).expr1)
    /\ is_single_codepoint(Factored(x, y).expr2)
    /\ IsConcatenation(r) /\ IsLiteral(r[2])
    /\ r[3] = <<"Repetition", Factored(x, y).expr2, QuestionMark>>

\* C12: in union of two distinct operands, the common prefix is no longer
\* than the graphemes either operand has on its Prefix side, and the common
\* suffix, found after the prefix is removed, is no longer than the graphemes
\* either operand still has on its Suffix side; no removal runs out of range,
\* in a direct call or in a slot of the driver.
C12_UnionWithinPrecondition ==
    /\ (pc = "comb" /\ op[1] = "union" /\ IsSome(x) /\ IsSome(y) /\ x # y) =>
          LET prefix == UnwrapOrEmpty(find_common_substring(x, y, Prefix))
              p == remove_common_substring(x, y, Prefix)
              suffix == UnwrapOrEmpty(find_common_substring(p.a, p.b, Suffix))
              s == remove_common_substring(p.a, p.b, Suffix)
          IN  /\ Len(prefix) <= Available(x, Prefix)
              /\ Len(prefix) <= Available(y, Prefix)
              /\ p.a # Panic /\ p.b # Panic
              /\ Len(suffix) <= Available(p.a, Suffix)
              /\ Len(suffix) <= Available(p.b, Suffix)
              /\ s.a # Panic /\ s.b # Panic
              /\ r # Panic
    /\ \A s \in DOMAIN b : b[s] # Panic
    /\ \A s \in DOMAIN a : a[s] # Panic

\* C12 witness: union has removed a common prefix and a common suffix from
\* the same two Literals, one of which is left empty.
C12_Witness ==
    /\ pc = "comb" /\ op[1] = "union"
    /\ IsLiteral(x) /\ IsLiteral(y) /\ x # y
    /\ Factored(x, y).common_prefix # None
    /\ Factored(x, y).common_suffix # None
    /\ is_empty(Factored(x, y).expr1)
    /\ IsConcatenation(r) /\ r[3] = <<"Literal", Factored(x, y).common_suffix[2]>>

====
